---- MODULE Spec2Model ----
(***************************************************************************)
(* Retention and capacity-monitoring scheduler of xndoughs-backend:        *)
(* DatabaseManager (utils/databaseManager.js), NotificationManager, the    *)
(* reservation store they work on, and the server entry points that start  *)
(* the scheduler and serve requests on the same store.                     *)
(*                                                                         *)
(* Time is counted in hours.  createdAt and the cutoffs are hours relative *)
(* to the instant the model starts (now = 0), so a reservation created     *)
(* 31 days before the start has createdAt = -744.  setDate(getDate() - n)  *)
(* is taken as n * 24 hours (no daylight-saving shift).                    *)
(***************************************************************************)
EXTENDS Integers, Sequences, FiniteSets, TLC

VARIABLES
    now,        \* wall clock (new Date(), Date.now()), in hours
    store,      \* the primary 'reservations' collection: a set of documents
    archive,    \* the 'archives' collection: a set of archive documents
    dbStats,    \* what connection.db.stats() reports (bytes)
    pc,         \* position of each maintenance callback
    loc,        \* the local variables of each callback's async call chain
    outcome,    \* what the callback's awaited operation last gave its caller
    sent,       \* notifications NotificationManager.notify was run for
    npc,        \* NotificationManager.notify: position of the caller
    nreq,       \* NotificationManager.notify: its arguments and environment
    email,      \* NotificationManager.sendEmail: state of the promise
    hook,       \* NotificationManager.sendDiscordWebhook: state of the promise
    wall,       \* wall clock the polling timers read, in half-minutes
    scheduledAt,  \* the instant scheduleMaintenanceTasks created the timers
    due,        \* setInterval: when each timer's next callback is due
    invoked,    \* the wall-clock instants each polling timer called its task
    entry,      \* the server entry point that is running
    monitoring, \* process.env.ENABLE_DB_MONITORING === 'true'
    cachedConnection,  \* the module's cached connection (FALSE: null)
    connects,   \* calls of mongoose.connect so far
    timers,     \* interval timers created, by kind
    checks,     \* initial health checks started
    req         \* the requests: route, arguments, position, response

dbVars == <<now, store, archive, dbStats, pc, loc, outcome, sent>>
notifyVars == <<npc, nreq, email, hook>>
timerVars == <<wall, scheduledAt, due, invoked>>
srvVars == <<entry, monitoring, cachedConnection, connects, timers, checks, req>>
extVars == <<timerVars, srvVars>>

vars == <<dbVars, notifyVars, extVars>>

----------------------------------------------------------------------------
(* Bounds of the model *)

\* most reservations in the primary store when the model starts
MaxRes == 3
\* most hours the clock advances during a behaviour
MaxTick == 1
\* most reservations in the primary store when the whole scheduler runs
MaxResMonitor == 1
\* most half-minutes the polling timers are followed after their creation
MaxAdvance == 6
\* most half-minutes a timer callback runs after it is due
MaxLate == 1
\* requests the server receives during a behaviour
MaxReq == 2
\* most reservations in the primary store when manual cleanups are followed
MaxResManual == 2

----------------------------------------------------------------------------
(* Program constants *)

HoursPerDay == 24
CleanupDays == 30
ArchiveDays == 60
WARNING_THRESHOLD == 350
CRITICAL_THRESHOLD == 400
EMERGENCY_THRESHOLD == 450
QuotaMB == 512
MiB == 1048576
\* setInterval(..., 60 * 1000), in half-minutes; a wall-clock minute is as long
Interval == 2
\* parseInt(process.env.CLEANUP_HOUR || '3'), parseInt(process.env.ARCHIVE_HOUR || '4')
cleanupHour == 3
archiveHour == 4

\* models/reservation.js: status enum
Statuses == {"pending", "confirmed", "cancelled"}

\* Ages (in hours at now = 0) of the reservations a behaviour may start with:
\* 10 hours, exactly 24 hours, exactly 30 days, 31 days, exactly 60 days.
\* One tick of the clock makes the boundary ages one hour older.
Ages == {10, HoursPerDay, CleanupDays * HoursPerDay,
         (CleanupDays + 1) * HoursPerDay, ArchiveDays * HoursPerDay}

Variants == Statuses \X Ages

StatusRank(s) == CASE s = "pending" -> 0 [] s = "confirmed" -> 1 [] s = "cancelled" -> 2

\* v was created before w (older first; the store hands out identifiers in
\* creation order)
Before(v, w) == \/ v[2] > w[2]
                \/ v[2] = w[2] /\ StatusRank(v[1]) < StatusRank(w[1])

\* the documents of a store holding the reservations V
DocsOf(V) == { [id |-> 1 + Cardinality({w \in V : Before(w, v)}),
                status |-> v[1],
                createdAt |-> 0 - v[2]] : v \in V }

Stores(n) == { DocsOf(V) : V \in { W \in SUBSET Variants : Cardinality(W) <= n } }

----------------------------------------------------------------------------
(* Capacity snapshot: DatabaseManager.getStats *)

\* (bytes / (1024 * 1024)).toFixed(2), as hundredths of a megabyte: toFixed
\* rounds the exact value to the nearest hundredth, a tie going up
ToFixed2(bytes) ==
    (bytes \div MiB) * 100 + ((bytes % MiB) * 200 + MiB) \div (2 * MiB)

\* (512 - bytes / (1024 * 1024)).toFixed(2), as hundredths of a megabyte
FreeStorage(bytes) ==
    IF bytes <= QuotaMB * MiB THEN ToFixed2(QuotaMB * MiB - bytes)
    ELSE 0 - ToFixed2(bytes - QuotaMB * MiB)

\* ((bytes / (1024 * 1024) / 512) * 100).toFixed(1), as tenths of a percent:
\* bytes * 1000 / 2^29 = (h * 125 + l * 125 / 2^20) / 64 for bytes = h * 2^20 + l
UsagePercentage(bytes) ==
    LET h == bytes \div MiB
        l == bytes % MiB
    IN  (h * 125 + (l * 125) \div MiB + 32) \div 64

GetStats(s) ==
    [sizeInMB        |-> ToFixed2(s.dataSize),
     storageInMB     |-> ToFixed2(s.storageSize),
     indexSizeInMB   |-> ToFixed2(s.indexSize),
     freeStorageMB   |-> FreeStorage(s.storageSize),
     usagePercentage |-> UsagePercentage(s.storageSize)]

\* what getStats gives when the read fails (null), in the shape of a snapshot
NoStats == [sizeInMB |-> -1, storageInMB |-> -1, indexSizeInMB |-> -1,
            freeStorageMB |-> -1, usagePercentage |-> -1]

\* storage sizes the store may report: 200 MB, and each threshold exactly,
\* a few thousand bytes above it (350.0048 MB, still "350.00") and a
\* hundredth of a megabyte above it
StorageSizes ==
    {200 * MiB, WARNING_THRESHOLD * MiB + 5000}
    \cup { t * MiB + e : t \in {WARNING_THRESHOLD, CRITICAL_THRESHOLD,
                                 EMERGENCY_THRESHOLD},
                         e \in {0, 10486} }

StatsOf(bytes) == [dataSize |-> bytes, storageSize |-> bytes, indexSize |-> MiB]

----------------------------------------------------------------------------
(* Retention queries *)

\* d.setDate(d.getDate() - n) on d = new Date()
DaysAgo(t, n) == t - n * HoursPerDay

\* mutant: Date.now() - 24 * 60 * 1000, 24 minutes, under an hour
OneDayAgoMinutes(t) == t

\* new Date(Date.now() - 24 * 60 * 60 * 1000)
OneDayAgo(t) == t - HoursPerDay

\* mutant: $lte in place of $lt
OldCompletedInclusive(docs, cutoff) ==
    { d \in docs : d.createdAt <= cutoff /\ d.status \in {"confirmed", "cancelled"} }

\* { createdAt: { $lt: thirtyDaysAgo }, status: { $in: ['confirmed', 'cancelled'] } }
OldCompleted(docs, cutoff) ==
    { d \in docs : d.createdAt < cutoff /\ d.status \in {"confirmed", "cancelled"} }

\* mutant: the pending rule given the 30-day cutoff as well
AbandonedPendingOld(docs, cutoff) ==
    { d \in docs : /\ d.createdAt < cutoff - (CleanupDays - 1) * HoursPerDay
                   /\ d.status = "pending" }

\* { createdAt: { $lt: oneDayAgo }, status: 'pending' }
AbandonedPending(docs, cutoff) ==
    { d \in docs : d.createdAt < cutoff /\ d.status = "pending" }

\* mutant: $lte in place of $lt
ToArchiveInclusive(docs, cutoff) == { d \in docs : d.createdAt <= cutoff }

\* { createdAt: { $lt: sixtyDaysAgo } }
ToArchive(docs, cutoff) == { d \in docs : d.createdAt < cutoff }

\* reservationsToArchive.map(res => ({ ...res.toObject(), archivedAt, ... }))
ArchiveData(docs, t) ==
    { [id |-> d.id, status |-> d.status, createdAt |-> d.createdAt,
       archivedAt |-> t, archiveReason |-> "age",
       originalCollection |-> "reservations"] : d \in docs }

----------------------------------------------------------------------------
(* What the modules of the process export and register *)

\* utils/notificationManager.js declares class NotificationManager and ends:
\* it assigns nothing to module.exports, so require('./notificationManager')
\* in databaseManager.js yields {} and NotificationManager.notify is
\* undefined there
NotifyExported == FALSE

\* the models registered with mongoose when the server module has loaded:
\* only mongoose.model('Reservation', reservationSchema)
RegisteredModels == {"Reservation"}

\* the TypeError of calling the undefined NotificationManager.notify
NotAFunction == "TypeError: NotificationManager.notify is not a function"
\* mongoose.model(name) for a name that is not registered
MissingSchema == "MissingSchemaError"
\* a rejected store operation (deleteMany, find, insertMany)
StoreError == "store error"

----------------------------------------------------------------------------
(* Callbacks, their locals and what their operation gives the caller *)

\* the daily-cleanup timer, the weekly-archival timer, and the health check
\* (4-hour timer and the initial check)
Procs == {"daily", "weekly", "health"}

NoLoc == [caller        |-> "timer",
          thirtyDaysAgo |-> 0,
          oneDayAgo     |-> 0,
          result        |-> 0,
          abandoned     |-> 0,
          sixtyDaysAgo  |-> 0,
          toArchive     |-> {},
          archiveData   |-> {},
          stats         |-> NoStats,
          error         |-> "none",    \* error.message in the catch block
          subject       |-> "none",
          isError       |-> FALSE,
          cont          |-> "none",
          calls         |-> << >>,
          notified      |-> << >>,
          removed       |-> {}]

NoAlerts == [warning |-> FALSE, critical |-> FALSE, emergency |-> FALSE]

NoOutcome == [op |-> "none", kind |-> "none", count |-> 0,
              stats |-> NoStats, alerts |-> NoAlerts, error |-> "none"]

Returned(op, n) == [NoOutcome EXCEPT !.op = op, !.kind = "returned", !.count = n]
Raised(op, msg) == [NoOutcome EXCEPT !.op = op, !.kind = "raised", !.error = msg]

\* where a callback goes next: its position, its locals, its caller's view
Step(pcv, l, o) == [pc |-> pcv, loc |-> l, out |-> o]

\* await NotificationManager.notify(subject, message, isError), when the call
\* can be made: the callback waits for notify and goes on at cont
AwaitNotify(l, o, subject, isError, cont) ==
    Step("notify", [l EXCEPT !.subject = subject, !.isError = isError,
                             !.cont = cont], o)

\* parseFloat(stats.storageInMB) > THRESHOLD, storageInMB in hundredths
Exceeds(storageInMB, threshold) == storageInMB > threshold * 100

\* the alerts object monitorHealth returns
Alerts(stats) ==
    [warning   |-> Exceeds(stats.storageInMB, WARNING_THRESHOLD),
     critical  |-> Exceeds(stats.storageInMB, CRITICAL_THRESHOLD),
     emergency |-> Exceeds(stats.storageInMB, EMERGENCY_THRESHOLD)]

\* if / else if / else if of monitorHealth
Tier(stats) ==
    IF Exceeds(stats.storageInMB, EMERGENCY_THRESHOLD) THEN "EMERGENCY"
    ELSE IF Exceeds(stats.storageInMB, CRITICAL_THRESHOLD) THEN "CRITICAL"
    ELSE IF Exceeds(stats.storageInMB, WARNING_THRESHOLD) THEN "WARNING"
    ELSE "none"

AlertSubject(tier) ==
    CASE tier = "EMERGENCY" -> "EMERGENCY: Database Near Capacity"
      [] tier = "CRITICAL"  -> "CRITICAL: High Database Usage"
      [] tier = "WARNING"   -> "WARNING: Database Usage Alert"

\* monitorHealth: return { ...stats, alerts: {...} }
MonitorReturn(l, o) ==
    Step("idle", l, [NoOutcome EXCEPT !.op = "monitorHealth", !.kind = "returned",
                                      !.stats = l.stats, !.alerts = Alerts(l.stats)])

\* monitorHealth: catch (error) { await NotificationManager.notify(...) }
MonitorCatch(l, o, msg) ==
    IF NotifyExported
    THEN AwaitNotify([l EXCEPT !.error = msg], o, "Monitoring Error", TRUE, "m_caught")
    ELSE Step("idle", [l EXCEPT !.error = msg],
              Raised("monitorHealth", NotAFunction))

\* cleanupOldReservations up to its first await: the cutoff, then deleteMany
CleanupCall(l, o) ==
    Step("c_del1", [l EXCEPT !.thirtyDaysAgo = DaysAgo(now, CleanupDays),
                             !.calls = Append(@, "cleanupOldReservations"),
                             !.removed = {}], o)

\* archiveReservations up to its first await: the cutoff, then find
ArchiveCall(l, o) ==
    Step("a_find", [l EXCEPT !.sixtyDaysAgo = DaysAgo(now, ArchiveDays),
                             !.calls = Append(@, "archiveReservations")], o)

\* op returns n: to monitorHealth when it made the call (cleanup is followed
\* by archival, archival by monitorHealth's return), else to the timer callback
Return(l, o, op, n) ==
    IF l.caller = "monitor"
    THEN IF op = "cleanupOldReservations" THEN ArchiveCall(l, o)
         ELSE MonitorReturn(l, o)
    ELSE Step("idle", l, Returned(op, n))

\* op rejects: into monitorHealth's catch when it made the call, else the
\* timer callback's promise rejects
Raise(l, o, op, msg) ==
    IF l.caller = "monitor"
    THEN MonitorCatch(l, o, msg)
    ELSE Step("idle", l, Raised(op, msg))

\* cleanupOldReservations: catch (error) { await notify('Cleanup Failed'); return 0 }
CleanupCatch(l, o, msg) ==
    IF NotifyExported
    THEN AwaitNotify([l EXCEPT !.error = msg], o, "Cleanup Failed", TRUE, "c_failed")
    ELSE Raise([l EXCEPT !.error = msg], o,
               "cleanupOldReservations", NotAFunction)

\* archiveReservations: catch (error) { await notify('Archiving Failed'); return 0 }
ArchiveCatch(l, o, msg) ==
    IF NotifyExported
    THEN AwaitNotify([l EXCEPT !.error = msg], o, "Archiving Failed", TRUE, "a_failed")
    ELSE Raise([l EXCEPT !.error = msg], o,
               "archiveReservations", NotAFunction)

\* cleanupOldReservations after the second deleteMany: the total, the
\* 'Cleanup Completed' notification when it is positive, the return
CleanupTotal(l, o) ==
    LET totalDeleted == l.result + l.abandoned
    IN  IF totalDeleted > 0
        THEN IF NotifyExported
             THEN AwaitNotify(l, o, "Cleanup Completed", FALSE, "c_done")
             ELSE CleanupCatch(l, o, NotAFunction)
        ELSE Return(l, o, "cleanupOldReservations", totalDeleted)

\* archiveReservations after find: nothing to archive, or the Archive model
\* lookup and the archive data, then insertMany
ArchiveSelected(l, o, docs) ==
    IF Cardinality(docs) > 0
    THEN IF "Archive" \in RegisteredModels
         THEN Step("a_insert", [l EXCEPT !.toArchive = docs,
                                         !.archiveData = ArchiveData(docs, now)], o)
         ELSE ArchiveCatch([l EXCEPT !.toArchive = docs], o, MissingSchema)
    ELSE Return([l EXCEPT !.toArchive = docs], o, "archiveReservations", 0)

\* monitorHealth after getStats gave a snapshot: the alert of the tier
MonitorClassify(l, o) ==
    LET tier == Tier(l.stats)
    IN  IF tier = "none" THEN MonitorReturn(l, o)
        ELSE IF NotifyExported
             THEN AwaitNotify(l, o, AlertSubject(tier), tier # "WARNING",
                              IF tier = "EMERGENCY" THEN "m_emergency" ELSE "m_alerted")
             ELSE MonitorCatch(l, o, NotAFunction)

\* the callback p moves as nx says
Goes(p, nx) ==
    /\ pc' = [pc EXCEPT ![p] = nx.pc]
    /\ loc' = [loc EXCEPT ![p] = nx.loc]
    /\ outcome' = [outcome EXCEPT ![p] = nx.out]

----------------------------------------------------------------------------
(* The clock *)

Tick ==
    /\ now < MaxTick
    /\ now' = now + 1
    /\ UNCHANGED <<store, archive, dbStats, pc, loc, outcome, sent, notifyVars, extVars>>

----------------------------------------------------------------------------
(* DatabaseManager.cleanupOldReservations *)

\* the daily timer's callback calls cleanupOldReservations
StartCleanup ==
    /\ pc["daily"] = "idle"
    /\ Goes("daily", CleanupCall(NoLoc, NoOutcome))
    /\ UNCHANGED <<now, store, archive, dbStats, sent, notifyVars, extVars>>

\* the first deleteMany settles; on success oneDayAgo is taken and the second
\* deleteMany is issued
CleanupDelete1(p) ==
    /\ pc[p] = "c_del1"
    /\ \E ok \in BOOLEAN :
         IF ok
         THEN LET hit == OldCompleted(store, loc[p].thirtyDaysAgo)
              IN  /\ store' = store \ hit
                  /\ Goes(p, Step("c_del2",
                              [loc[p] EXCEPT !.result = Cardinality(hit),
                                             !.oneDayAgo = OneDayAgo(now),
                                             !.removed = @ \cup hit],
                              outcome[p]))
         ELSE /\ store' = store
              /\ Goes(p, CleanupCatch(loc[p], outcome[p], StoreError))
    /\ UNCHANGED <<now, archive, dbStats, sent, notifyVars, extVars>>

\* the second deleteMany settles
CleanupDelete2(p) ==
    /\ pc[p] = "c_del2"
    /\ \E ok \in BOOLEAN :
         IF ok
         THEN LET hit == AbandonedPending(store, loc[p].oneDayAgo)
              IN  /\ store' = store \ hit
                  /\ Goes(p, CleanupTotal(
                              [loc[p] EXCEPT !.abandoned = Cardinality(hit),
                                             !.removed = @ \cup hit],
                              outcome[p]))
         ELSE /\ store' = store
              /\ Goes(p, CleanupCatch(loc[p], outcome[p], StoreError))
    /\ UNCHANGED <<now, archive, dbStats, sent, notifyVars, extVars>>

----------------------------------------------------------------------------
(* DatabaseManager.archiveReservations *)

\* the weekly timer's callback calls archiveReservations
StartArchive ==
    /\ pc["weekly"] = "idle"
    /\ Goes("weekly", ArchiveCall(NoLoc, NoOutcome))
    /\ UNCHANGED <<now, store, archive, dbStats, sent, notifyVars, extVars>>

\* find settles
ArchiveFind(p) ==
    /\ pc[p] = "a_find"
    /\ \E ok \in BOOLEAN :
         IF ok
         THEN Goes(p, ArchiveSelected(loc[p], outcome[p],
                                      ToArchive(store, loc[p].sixtyDaysAgo)))
         ELSE Goes(p, ArchiveCatch(loc[p], outcome[p], StoreError))
    /\ UNCHANGED <<now, store, archive, dbStats, sent, notifyVars, extVars>>

\* Archive.insertMany settles: it is rejected when the store fails or an
\* archive document with the same _id exists
ArchiveInsert(p) ==
    /\ pc[p] = "a_insert"
    /\ \E ok \in BOOLEAN :
         IF ok /\ ~ \E a \in archive : \E d \in loc[p].archiveData : a.id = d.id
         THEN /\ archive' = archive \cup loc[p].archiveData
              /\ Goes(p, Step("a_delete", loc[p], outcome[p]))
         ELSE /\ archive' = archive
              /\ Goes(p, ArchiveCatch(loc[p], outcome[p], StoreError))
    /\ UNCHANGED <<now, store, dbStats, sent, notifyVars, extVars>>

\* deleteMany({ _id: { $in: ids } }) settles
ArchiveDelete(p) ==
    /\ pc[p] = "a_delete"
    /\ \E ok \in BOOLEAN :
         IF ok
         THEN LET ids == { d.id : d \in loc[p].toArchive }
                  hit == { d \in store : d.id \in ids }
              IN  /\ store' = store \ hit
                  /\ Goes(p, IF NotifyExported
                             THEN AwaitNotify([loc[p] EXCEPT !.removed = @ \cup hit],
                                              outcome[p], "Archiving Completed",
                                              FALSE, "a_done")
                             ELSE ArchiveCatch([loc[p] EXCEPT !.removed = @ \cup hit],
                                               outcome[p], NotAFunction))
         ELSE /\ store' = store
              /\ Goes(p, ArchiveCatch(loc[p], outcome[p], StoreError))
    /\ UNCHANGED <<now, archive, dbStats, sent, notifyVars, extVars>>

----------------------------------------------------------------------------
(* DatabaseManager.monitorHealth *)

\* the health timer's callback (or scheduleMaintenanceTasks) calls
\* monitorHealth, which calls getStats, which awaits db.stats()
StartMonitor ==
    /\ pc["health"] = "idle"
    /\ Goes("health", Step("m_stats", [NoLoc EXCEPT !.caller = "monitor"], NoOutcome))
    /\ UNCHANGED <<now, store, archive, dbStats, sent, notifyVars, extVars>>

\* db.stats() settles: getStats gives null (monitorHealth returns undefined)
\* or the snapshot, which monitorHealth classifies
MonitorStats(p) ==
    /\ pc[p] = "m_stats"
    /\ \E ok \in BOOLEAN :
         IF ok
         THEN Goes(p, MonitorClassify([loc[p] EXCEPT !.stats = GetStats(dbStats)],
                                      outcome[p]))
         ELSE Goes(p, Step("idle", loc[p], Returned("monitorHealth", 0)))
    /\ UNCHANGED <<now, store, archive, dbStats, sent, notifyVars, extVars>>

\* an awaited NotificationManager.notify resolves and the caller goes on
NotifyDone(p) ==
    /\ pc[p] = "notify"
    /\ sent' = Append(sent, [subject |-> loc[p].subject, isError |-> loc[p].isError])
    /\ LET l == [loc[p] EXCEPT !.notified = Append(@, loc[p].subject)]
           o == outcome[p]
           c == l.cont
       IN  Goes(p, CASE c = "c_done"   -> Return(l, o, "cleanupOldReservations",
                                                 l.result + l.abandoned)
                     [] c = "c_failed" -> Return(l, o, "cleanupOldReservations", 0)
                     [] c = "a_done"   -> Return(l, o, "archiveReservations",
                                                 Cardinality(l.toArchive))
                     [] c = "a_failed" -> Return(l, o, "archiveReservations", 0)
                     [] c = "m_emergency" -> CleanupCall(l, o)
                     [] c = "m_alerted"   -> MonitorReturn(l, o)
                     [] c = "m_caught"    -> Step("idle", l, Returned("monitorHealth", 0)))
    /\ UNCHANGED <<now, store, archive, dbStats, notifyVars, extVars>>

----------------------------------------------------------------------------
(* NotificationManager: notify, sendEmail, sendDiscordWebhook, called on   *)
(* the class itself.  A channel's promise is unstarted, pending, fulfilled *)
(* (sent; caught: the failure was caught and logged; skipped: no webhook   *)
(* URL) or rejected.                                                       *)

\* the subjects DatabaseManager passes to notify
Subjects == {"Cleanup Completed", "Cleanup Failed", "Archiving Completed",
             "Archiving Failed", "Monitoring Error",
             "EMERGENCY: Database Near Capacity", "CRITICAL: High Database Usage",
             "WARNING: Database Usage Alert"}

Fulfilled(x) == x \in {"sent", "caught", "skipped"}

\* sendEmail up to its await: createTransport (a throw is caught), sendMail
SendEmailStart(transportOk) == IF transportOk THEN "pending" ELSE "caught"

\* sendEmail after sendMail settles: try { ... } catch (error) { log }
SendEmailSettle(r) == IF r = "ok" THEN "sent" ELSE "caught"

\* sendDiscordWebhook up to its await: no URL returns, else fetch (a throw
\* of the call is caught)
SendWebhookStart(url, fetchOk) ==
    IF ~url THEN "skipped" ELSE IF fetchOk THEN "pending" ELSE "caught"

\* mutant: the response check moved after the try block, its throw uncaught
SendWebhookSettleUncaught(r) ==
    IF r = "ok" THEN "sent" ELSE IF r = "notok" THEN "rejected" ELSE "caught"

\* sendDiscordWebhook after fetch settles: a response that is not ok throws
\* inside the try, a rejected fetch too; both are caught
SendWebhookSettle(r) == IF r = "ok" THEN "sent" ELSE "caught"

\* notify: [this.sendEmail(...), this.sendDiscordWebhook(...)], both calls
\* made before Promise.all is awaited
NotifyStart(url, transportOk, fetchOk) ==
    <<SendEmailStart(transportOk), SendWebhookStart(url, fetchOk)>>

\* Promise.all([e, h])
PromiseAll(e, h) ==
    IF e = "rejected" \/ h = "rejected" THEN "rejected"
    ELSE IF Fulfilled(e) /\ Fulfilled(h) THEN "resolved"
    ELSE "pending"

NotifyCall ==
    /\ npc = "idle"
    /\ \E subject \in Subjects, isError \in BOOLEAN,
          transportOk \in BOOLEAN, fetchOk \in BOOLEAN :
         LET st == NotifyStart(nreq.webhookUrl, transportOk, fetchOk)
         IN  /\ nreq' = [nreq EXCEPT !.subject = subject, !.isError = isError]
             /\ email' = st[1]
             /\ hook' = st[2]
    /\ npc' = "awaiting"
    /\ UNCHANGED <<dbVars, extVars>>

EmailSettle ==
    /\ email = "pending"
    /\ \E r \in {"ok", "rejected"} : email' = SendEmailSettle(r)
    /\ UNCHANGED <<npc, nreq, hook, dbVars, extVars>>

HookSettle ==
    /\ hook = "pending"
    /\ \E r \in {"ok", "notok", "rejected"} : hook' = SendWebhookSettle(r)
    /\ UNCHANGED <<npc, nreq, email, dbVars, extVars>>

\* await Promise.all(...) settles and with it notify's own promise
NotifySettle ==
    /\ npc = "awaiting"
    /\ PromiseAll(email, hook) # "pending"
    /\ npc' = PromiseAll(email, hook)
    /\ UNCHANGED <<nreq, email, hook, dbVars, extVars>>

\* the caller of notify goes on; a next call may follow
NotifyReturn ==
    /\ npc = "resolved"
    /\ npc' = "idle"
    /\ email' = "unstarted"
    /\ hook' = "unstarted"
    /\ UNCHANGED <<nreq, dbVars, extVars>>

----------------------------------------------------------------------------
(* scheduleMaintenanceTasks: the two polling timers.  wall counts           *)
(* half-minutes of local time from a Sunday 00:00:00; the window followed   *)
(* is shorter than an hour, so no age (counted in hours from now) changes.  *)

PollingTimers == {"daily", "weekly"}

\* Date getters of local time
GetMinutes(t) == (t \div Interval) % 60
GetHours(t) == (t \div (60 * Interval)) % 24
GetDay(t) == (t \div (24 * 60 * Interval)) % 7

\* the instant of day, hour:minute and half-minute half
At(day, hour, minute, half) == ((day * 24 + hour) * 60 + minute) * Interval + half

\* now.getHours() === cleanupHour && now.getMinutes() === 0
CleanupDue(t) == GetHours(t) = cleanupHour /\ GetMinutes(t) = 0

\* mutant: the weekday test dropped
ArchiveDueAnyDay(t) == GetHours(t) = archiveHour /\ GetMinutes(t) = 0

\* now.getDay() === 0 && now.getHours() === archiveHour && now.getMinutes() === 0
ArchiveDue(t) ==
    GetDay(t) = 0 /\ GetHours(t) = archiveHour /\ GetMinutes(t) = 0

\* the instants at which the timers are created: a Sunday or a Monday, one
\* or two minutes before the cleanup hour or the archive hour
Starts == { At(d, h, m, x) : d \in {0, 1}, h \in {cleanupHour - 1, archiveHour - 1},
                             m \in {58, 59}, x \in {0, 1} }

\* time passes; a due callback runs at most MaxLate after it is due (the
\* event loop runs a timer no sooner than its delay, and later when busy)
Advance ==
    /\ wall < scheduledAt + MaxAdvance
    /\ \A k \in PollingTimers : wall < due[k] + MaxLate
    /\ wall' = wall + 1
    /\ UNCHANGED <<scheduledAt, due, invoked, dbVars, notifyVars, srvVars>>

\* the daily timer's callback runs: it reads the clock, calls
\* cleanupOldReservations on a match, and the timer is set again
DailyTimer ==
    /\ wall >= due["daily"]
    /\ CleanupDue(wall) => pc["daily"] = "idle"
    /\ due' = [due EXCEPT !["daily"] = wall + Interval]
    /\ IF CleanupDue(wall)
       THEN /\ invoked' = [invoked EXCEPT !["daily"] = Append(@, wall)]
            /\ Goes("daily", CleanupCall(NoLoc, NoOutcome))
       ELSE UNCHANGED <<invoked, pc, loc, outcome>>
    /\ UNCHANGED <<wall, scheduledAt, now, store, archive, dbStats, sent,
                   notifyVars, srvVars>>

\* the weekly timer's callback runs
WeeklyTimer ==
    /\ wall >= due["weekly"]
    /\ ArchiveDue(wall) => pc["weekly"] = "idle"
    /\ due' = [due EXCEPT !["weekly"] = wall + Interval]
    /\ IF ArchiveDue(wall)
       THEN /\ invoked' = [invoked EXCEPT !["weekly"] = Append(@, wall)]
            /\ Goes("weekly", ArchiveCall(NoLoc, NoOutcome))
       ELSE UNCHANGED <<invoked, pc, loc, outcome>>
    /\ UNCHANGED <<wall, scheduledAt, now, store, archive, dbStats, sent,
                   notifyVars, srvVars>>

----------------------------------------------------------------------------
(* The server entry points: connectToDatabase and the request handlers     *)
(* PUT /api/reservations/:id and DELETE /api/reservations/old.             *)
(*   api      the handler set of src/unnamed/part_002 (utils/db connection) *)
(*   serverA  src/unnamed/part_003, lines 45-214                            *)
(*   serverB  src/unnamed/part_003, lines 215-476 (uses DatabaseManager)    *)
(*   serverC  src/unnamed/part_003, lines 477-730                           *)

EntryPoints == {"api", "serverA", "serverB", "serverC"}

\* the entry point that requires DatabaseManager and reads ENABLE_DB_MONITORING
Monitored == {"serverB"}

\* the routes of the model each entry point defines
RoutesOf(e) == IF e = "serverB" THEN {"PUT"} ELSE {"PUT", "DELETE_OLD"}

\* entry points whose PUT handler tests the result: if (!reservation) 404
NotFoundChecked == {"api", "serverB"}

Reqs == 1 .. MaxReq

\* _id values a request may name: those of the store and one more
Ids == 1 .. (MaxResMonitor + 1)

TimerKinds == {"health", "daily", "weekly"}

CatchTypeError == "TypeError: Cannot read properties of undefined (reading 'catch')"
ConnectError == "connection error"

NoReq == [pc |-> "none", route |-> "none", id |-> 0, body |-> "none",
          cutoff |-> 0, found |-> {}, code |-> 0, json |-> {}, error |-> "none"]

\* the status of the handler's catch block
CatchCode(route) == IF route = "PUT" THEN 400 ELSE 500

\* the handler's catch block answers
Fails(q, msg) == [q EXCEPT !.pc = "done", !.code = CatchCode(q.route), !.error = msg]

\* the handler after await connectToDatabase() resolved: it issues its query
\* (DELETE old takes its cutoff first)
Queries(q) ==
    [q EXCEPT !.pc = "query",
              !.cutoff = IF q.route = "DELETE_OLD" THEN DaysAgo(now, CleanupDays) ELSE 0]

\* findByIdAndUpdate(id, body, { new: true }): the document after the update
Updated(d, body) == [d EXCEPT !.status = body]

\* the PUT handler's answer to findByIdAndUpdate's result (a set: {} is null)
PutAnswer(e, q, docs) ==
    IF docs = {} /\ e \in NotFoundChecked
    THEN [q EXCEPT !.pc = "done", !.code = 404, !.error = "Reservation not found"]
    ELSE [q EXCEPT !.pc = "done", !.code = 200, !.json = docs]

\* mutant: the manual cleanup applies the rule to every status
OldReservationsAnyStatus(docs, cutoff) == { d \in docs : d.createdAt < cutoff }

\* DELETE old: { createdAt: { $lt: thirtyDaysAgo },
\*               status: { $in: ['confirmed', 'cancelled'] } }
OldReservations(docs, cutoff) ==
    { d \in docs : d.createdAt < cutoff /\ d.status \in {"confirmed", "cancelled"} }

\* a request for one of routes arrives (requests are numbered in the order
\* they arrive) and its handler calls connectToDatabase: the cached
\* connection is returned, or mongoose.connect is called and awaited
Arrives(r, routes) ==
    /\ req[r].pc = "none"
    /\ \A q \in Reqs : q < r => req[q].pc # "none"
    /\ \E route \in routes, id \in Ids, body \in Statuses :
         LET q == [NoReq EXCEPT !.route = route,
                                !.id = IF route = "PUT" THEN id ELSE 0,
                                !.body = IF route = "PUT" THEN body ELSE "none"]
         IN  IF cachedConnection
             THEN /\ req' = [req EXCEPT ![r] = Queries(q)]
                  /\ UNCHANGED connects
             ELSE /\ req' = [req EXCEPT ![r] = [q EXCEPT !.pc = "connect"]]
                  /\ connects' = [connects EXCEPT !.made = @ + 1]
    /\ UNCHANGED <<entry, monitoring, cachedConnection, timers, checks,
                   dbVars, notifyVars, timerVars>>

\* any request of the entry point
Request(r) == Arrives(r, RoutesOf(entry))

\* a DELETE /api/reservations/old request
RequestOld(r) == Arrives(r, RoutesOf(entry) \cap {"DELETE_OLD"})

\* mongoose.connect settles.  On success the connection is cached; with
\* monitoring enabled scheduleMaintenanceTasks runs (three timers, the
\* initial monitorHealth) and .catch is called on what it returned, undefined:
\* the TypeError is caught, thrown again, and connectToDatabase rejects
ConnectSettle(r) ==
    /\ req[r].pc = "connect"
    /\ \E ok \in BOOLEAN :
         IF ok
         THEN /\ cachedConnection' = TRUE
              /\ UNCHANGED connects
              /\ IF entry \in Monitored /\ monitoring
                 THEN /\ timers' = [k \in TimerKinds |-> timers[k] + 1]
                      /\ checks' = checks + 1
                      /\ IF pc["health"] = "idle"
                         THEN Goes("health", Step("m_stats",
                                       [NoLoc EXCEPT !.caller = "monitor"], NoOutcome))
                         ELSE UNCHANGED <<pc, loc, outcome>>
                      /\ req' = [req EXCEPT ![r] = Fails(@, CatchTypeError)]
                 ELSE /\ UNCHANGED <<timers, checks, pc, loc, outcome>>
                      /\ req' = [req EXCEPT ![r] = Queries(@)]
         ELSE /\ connects' = [connects EXCEPT !.failed = @ + 1]
              /\ req' = [req EXCEPT ![r] = Fails(@, ConnectError)]
              /\ UNCHANGED <<cachedConnection, timers, checks, pc, loc, outcome>>
    /\ UNCHANGED <<entry, monitoring, now, store, archive, dbStats, sent,
                   notifyVars, timerVars>>

\* findByIdAndUpdate settles and the PUT handler answers
PutSettle(r) ==
    /\ req[r].pc = "query"
    /\ req[r].route = "PUT"
    /\ \E ok \in BOOLEAN :
         IF ok
         THEN LET hit == { d \in store : d.id = req[r].id }
                  new == { Updated(d, req[r].body) : d \in hit }
              IN  /\ store' = (store \ hit) \cup new
                  /\ req' = [req EXCEPT ![r] = PutAnswer(entry, [@ EXCEPT !.found = hit], new)]
         ELSE /\ store' = store
              /\ req' = [req EXCEPT ![r] = Fails(@, StoreError)]
    /\ UNCHANGED <<entry, monitoring, cachedConnection, connects, timers, checks,
                   now, archive, dbStats, pc, loc, outcome, sent,
                   notifyVars, timerVars>>

\* deleteMany settles and the DELETE old handler answers
DeleteOldSettle(r) ==
    /\ req[r].pc = "query"
    /\ req[r].route = "DELETE_OLD"
    /\ \E ok \in BOOLEAN :
         IF ok
         THEN LET hit == OldReservations(store, req[r].cutoff)
              IN  /\ store' = store \ hit
                  /\ req' = [req EXCEPT ![r] = [@ EXCEPT !.pc = "done", !.code = 200,
                                                         !.found = hit]]
         ELSE /\ store' = store
              /\ req' = [req EXCEPT ![r] = Fails(@, StoreError)]
    /\ UNCHANGED <<entry, monitoring, cachedConnection, connects, timers, checks,
                   now, archive, dbStats, pc, loc, outcome, sent,
                   notifyVars, timerVars>>

\* the timers scheduleMaintenanceTasks created run their callbacks
ServerWeekly == timers["weekly"] > 0 /\ StartArchive

----------------------------------------------------------------------------
(* Specifications *)

InitDb(stores, sizes) ==
    /\ now = 0
    /\ store \in stores
    /\ archive = {}
    /\ dbStats \in { StatsOf(b) : b \in sizes }
    /\ pc = [p \in Procs |-> "idle"]
    /\ loc = [p \in Procs |-> NoLoc]
    /\ outcome = [p \in Procs |-> NoOutcome]
    /\ sent = << >>

InitNotify(urls) ==
    /\ npc = "idle"
    /\ nreq \in [subject : {"none"}, isError : {FALSE}, webhookUrl : urls]
    /\ email = "unstarted"
    /\ hook = "unstarted"

\* no polling timer is followed
InitTimersOff ==
    /\ wall = 0
    /\ scheduledAt = 0
    /\ due = [k \in PollingTimers |-> 0]
    /\ invoked = [k \in PollingTimers |-> << >>]

\* scheduleMaintenanceTasks has just created the timers
InitTimers ==
    /\ wall \in Starts
    /\ scheduledAt = wall
    /\ due = [k \in PollingTimers |-> wall + Interval]
    /\ invoked = [k \in PollingTimers |-> << >>]

\* no server is followed
InitServerOff ==
    /\ entry = "serverB"
    /\ monitoring = TRUE
    /\ cachedConnection = TRUE
    /\ connects = [made |-> 1, failed |-> 0]
    /\ timers = [k \in TimerKinds |-> 1]
    /\ checks = 1
    /\ req = [r \in Reqs |-> NoReq]

\* an entry point has been loaded: no connection, no request yet
InitServer ==
    /\ entry \in EntryPoints
    /\ monitoring \in (IF entry \in Monitored THEN BOOLEAN ELSE {FALSE})
    /\ cachedConnection = FALSE
    /\ connects = [made |-> 0, failed |-> 0]
    /\ timers = [k \in TimerKinds |-> 0]
    /\ checks = 0
    /\ req = [r \in Reqs |-> NoReq]

InitOff == InitTimersOff /\ InitServerOff

\* the whole scheduler: every storage size, a store of up to MaxResMonitor
Init == InitDb(Stores(MaxResMonitor), StorageSizes) /\ InitNotify({TRUE}) /\ InitOff

\* the retention runs alone: any store of up to MaxRes reservations
InitRetention == InitDb(Stores(MaxRes), {200 * MiB}) /\ InitNotify({TRUE}) /\ InitOff

\* the notification sink on its own: webhook URL configured or not
InitNotifier == InitDb({{}}, {200 * MiB}) /\ InitNotify(BOOLEAN) /\ InitOff

\* the polling timers from their creation on
InitPolling ==
    /\ InitDb(Stores(MaxResMonitor), {200 * MiB})
    /\ InitNotify({TRUE})
    /\ InitTimers
    /\ InitServerOff

\* an entry point from its load on
InitEntry ==
    /\ InitDb(Stores(MaxResMonitor), {200 * MiB})
    /\ InitNotify({TRUE})
    /\ InitTimersOff
    /\ InitServer

\* the daily-cleanup and the weekly-archival callbacks
NextRetention ==
    \/ Tick
    \/ StartCleanup
    \/ \E p \in Procs : CleanupDelete1(p)
    \/ \E p \in Procs : CleanupDelete2(p)
    \/ StartArchive
    \/ \E p \in Procs : ArchiveFind(p)

\* ArchiveInsert, ArchiveDelete and NotifyDone are no disjuncts: no callback
\* reaches a_insert, a_delete or notify (UnreachedCode below)
Next ==
    \/ NextRetention
    \/ StartMonitor
    \/ \E p \in Procs : MonitorStats(p)

NextNotifier ==
    \/ NotifyCall
    \/ EmailSettle
    \/ HookSettle
    \/ NotifySettle
    \/ NotifyReturn

Spec == Init /\ [][Next]_vars

\* the health check changes nothing the retention runs read (under Spec no
\* monitorHealth gets as far as its cleanup: UnreachedCode, MonitorNeverCleans),
\* so the retention claims are checked without it, on larger stores
SpecRetention == InitRetention /\ [][NextRetention]_vars

SpecNotifier == InitNotifier /\ [][NextNotifier]_vars

\* the two polling timers and the tasks they call
NextPolling ==
    \/ Advance
    \/ DailyTimer
    \/ WeeklyTimer
    \/ \E p \in Procs : CleanupDelete1(p)
    \/ \E p \in Procs : CleanupDelete2(p)
    \/ \E p \in Procs : ArchiveFind(p)

SpecPolling == InitPolling /\ [][NextPolling]_vars

\* the requests of an entry point, and the initial health check and the
\* weekly archival of the scheduler it started (the daily cleanup and the
\* 4-hour health timer are followed under Spec)
NextEntry ==
    \/ Tick
    \/ \E r \in Reqs : Request(r)
    \/ \E r \in Reqs : ConnectSettle(r)
    \/ \E r \in Reqs : PutSettle(r)
    \/ \E r \in Reqs : DeleteOldSettle(r)
    \/ ServerWeekly
    \/ \E p \in Procs : ArchiveFind(p)
    \/ \E p \in Procs : MonitorStats(p)

SpecEntry == InitEntry /\ [][NextEntry]_vars

\* the manual cleanup requests alone, in the entry points that define the
\* route, on stores of up to MaxResManual reservations, within one hour
InitManual ==
    /\ InitDb(Stores(MaxResManual), {200 * MiB})
    /\ InitNotify({TRUE})
    /\ InitTimersOff
    /\ InitServer
    /\ "DELETE_OLD" \in RoutesOf(entry)

NextManual ==
    \/ \E r \in Reqs : RequestOld(r)
    \/ \E r \in Reqs : ConnectSettle(r)
    \/ \E r \in Reqs : DeleteOldSettle(r)

SpecManual == InitManual /\ [][NextManual]_vars

\* the next-state relation with every step of the handlers
NextAll ==
    \/ Next
    \/ \E p \in Procs : ArchiveInsert(p)
    \/ \E p \in Procs : ArchiveDelete(p)
    \/ \E p \in Procs : NotifyDone(p)

SpecAll == Init /\ [][NextAll]_vars

\* no callback waits for notify or gets past the Archive model lookup, so
\* nothing is ever notified or archived
UnreachedCode ==
    /\ \A p \in Procs : pc[p] \notin {"notify", "a_insert", "a_delete"}
    /\ sent = << >>
    /\ archive = {}

\* the health check never runs cleanup or archival and never touches the store
MonitorNeverCleans ==
    /\ pc["health"] \in {"idle", "m_stats"}
    /\ loc["health"].calls = << >>
    /\ loc["health"].removed = {}

----------------------------------------------------------------------------
(* Steps of cleanupOldReservations and archiveReservations, for the claims *)

\* the first deleteMany of p's cleanup settles, successfully
Delete1Settles(p) == pc[p] = "c_del1" /\ pc'[p] # "c_del1"
Delete1Succeeds(p) == pc[p] = "c_del1" /\ pc'[p] = "c_del2"

\* the second deleteMany of p's cleanup settles, successfully
Delete2Settles(p) == pc[p] = "c_del2" /\ pc'[p] # "c_del2"
Delete2Succeeds(p) == Delete2Settles(p) /\ loc'[p].error # StoreError

\* the find of p's archival settles, successfully
FindSettles(p) == pc[p] = "a_find" /\ pc'[p] # "a_find"
FindSucceeds(p) == FindSettles(p) /\ loc'[p].error # StoreError

\* p's cleanup has ended with both deleteMany successful
CleanupRan(p) ==
    /\ pc[p] = "idle"
    /\ outcome[p].op = "cleanupOldReservations"
    /\ loc[p].error # StoreError

\* p's archival has ended with its find successful
ArchiveRan(p) ==
    /\ pc[p] = "idle"
    /\ outcome[p].op = "archiveReservations"
    /\ loc[p].error # StoreError

\* the instant p's cleanup took new Date() for thirtyDaysAgo
CleanupStart(p) == loc[p].thirtyDaysAgo + CleanupDays * HoursPerDay

Completed(d) == d.status \in {"confirmed", "cancelled"}

----------------------------------------------------------------------------
(* C1 *)

\* C1 as stated: once the first delete query of a cleanup has succeeded, each
\* confirmed or cancelled reservation of age >= 30 days (createdAt at or
\* before the cutoff) is gone, and each of age < 30 days is still there.
C1_AsStated ==
    [][\A p \in Procs : \A d \in store :
         (Delete1Succeeds(p) /\ Completed(d)) =>
             /\ d.createdAt <= loc[p].thirtyDaysAgo => d \notin store'
             /\ d.createdAt > loc[p].thirtyDaysAgo => d \in store']_vars

\* C1 amended: once the first delete query of a cleanup has succeeded, each
\* confirmed or cancelled reservation older than 30 days (createdAt strictly
\* before the cutoff) is gone; no step of the cleanup removes a confirmed or
\* cancelled reservation of age <= 30 days (createdAt at or after the cutoff).
C1_CleanupCompleted ==
    [][\A p \in Procs : \A d \in store :
         Completed(d) =>
             /\ (Delete1Succeeds(p) /\ d.createdAt < loc[p].thirtyDaysAgo)
                    => d \notin store'
             /\ ((Delete1Settles(p) \/ Delete2Settles(p))
                    /\ d.createdAt >= loc[p].thirtyDaysAgo) => d \in store']_vars

\* a cleanup has removed a completed reservation older than 30 days and kept
\* one that is exactly 30 days old
C1_Witness ==
    \E p \in Procs :
        /\ pc[p] = "c_del2"
        /\ \E d \in loc[p].removed :
               Completed(d) /\ d.createdAt < loc[p].thirtyDaysAgo
        /\ \E d \in store :
               Completed(d) /\ d.createdAt = loc[p].thirtyDaysAgo

----------------------------------------------------------------------------
(* C2 *)

\* C2 as stated: once the second delete query of a cleanup has succeeded, each
\* pending reservation of age >= 24 hours (createdAt at or before the cutoff)
\* is gone.
C2_AsStated ==
    [][\A p \in Procs : \A d \in store :
         (Delete2Succeeds(p) /\ d.status = "pending"
             /\ d.createdAt <= loc[p].oneDayAgo) => d \notin store']_vars

\* C2 amended: once the second delete query of a cleanup has succeeded, each
\* pending reservation older than 24 hours (createdAt strictly before the
\* cutoff) is gone, whether or not it is older than 30 days.
C2_AbandonedPending ==
    [][\A p \in Procs : \A d \in store :
         (Delete2Succeeds(p) /\ d.status = "pending"
             /\ d.createdAt < loc[p].oneDayAgo) => d \notin store']_vars

\* a cleanup has ended, having removed a pending reservation older than 24
\* hours and younger than 30 days, and one older than 30 days
C2_Witness ==
    \E p \in Procs :
        /\ CleanupRan(p)
        /\ \E d \in loc[p].removed :
               /\ d.status = "pending"
               /\ d.createdAt < loc[p].oneDayAgo
               /\ d.createdAt > loc[p].thirtyDaysAgo
        /\ \E d \in loc[p].removed :
               d.status = "pending" /\ d.createdAt < loc[p].thirtyDaysAgo

----------------------------------------------------------------------------
(* C3 *)

\* the three reservations of the scenario, for a cleanup started at t
Scenario31d(d, t) ==
    d.status = "confirmed" /\ d.createdAt = t - (CleanupDays + 1) * HoursPerDay
ScenarioPending10h(d, t) == d.status = "pending" /\ d.createdAt = t - 10
ScenarioConfirmed10h(d, t) == d.status = "confirmed" /\ d.createdAt = t - 10

\* the store holds the scenario when the first query of p's cleanup runs
ScenarioAtDelete1(p) ==
    /\ \E d \in store : Scenario31d(d, CleanupStart(p))
    /\ \E d \in store : ScenarioPending10h(d, CleanupStart(p))
    /\ \E d \in store : ScenarioConfirmed10h(d, CleanupStart(p))

\* p's cleanup ran its first query on the scenario
ScenarioAtDelete2(p) ==
    /\ \E d \in loc[p].removed : Scenario31d(d, CleanupStart(p))
    /\ \E d \in store : ScenarioPending10h(d, CleanupStart(p))
    /\ \E d \in store : ScenarioConfirmed10h(d, CleanupStart(p))

\* C3 as stated: a cleanup run over the scenario deletes the confirmed
\* reservation created 31 days ago, deletes the pending one created 10 hours
\* ago and retains the confirmed one created 10 hours ago.
C3_AsStated ==
    [][\A p \in Procs : \A d \in store :
         /\ (Delete1Succeeds(p) /\ ScenarioAtDelete1(p)) =>
                /\ Scenario31d(d, CleanupStart(p)) => d \notin store'
                /\ ScenarioConfirmed10h(d, CleanupStart(p)) => d \in store'
         /\ (Delete2Succeeds(p) /\ ScenarioAtDelete2(p)) =>
                /\ ScenarioPending10h(d, CleanupStart(p)) => d \notin store'
                /\ ScenarioConfirmed10h(d, CleanupStart(p)) => d \in store']_vars

\* C3 amended: a cleanup run over the scenario deletes the confirmed
\* reservation created 31 days ago and retains both reservations created 10
\* hours ago, the pending one and the confirmed one.
C3_Scenario ==
    [][\A p \in Procs : \A d \in store :
         /\ (Delete1Succeeds(p) /\ ScenarioAtDelete1(p)) =>
                /\ Scenario31d(d, CleanupStart(p)) => d \notin store'
                /\ ScenarioPending10h(d, CleanupStart(p)) => d \in store'
                /\ ScenarioConfirmed10h(d, CleanupStart(p)) => d \in store'
         /\ (Delete2Succeeds(p) /\ ScenarioAtDelete2(p)) =>
                /\ ScenarioPending10h(d, CleanupStart(p)) => d \in store'
                /\ ScenarioConfirmed10h(d, CleanupStart(p)) => d \in store']_vars

\* a cleanup over the scenario has ended: one reservation removed, the one
\* created 31 days ago, and the two created 10 hours ago still in the store
C3_Witness ==
    \E p \in Procs :
        /\ CleanupRan(p)
        /\ ScenarioAtDelete2(p)
        /\ Cardinality(loc[p].removed) = 1
        /\ Cardinality(store) = 2

----------------------------------------------------------------------------
(* C4 *)

\* C4: a cleanup removes no confirmed or cancelled reservation whose createdAt
\* equals its 30-day cutoff and no pending reservation whose createdAt equals
\* its 24-hour cutoff, and an archival selects no reservation whose createdAt
\* equals its 60-day cutoff.
C4_StrictBoundaries ==
    [][\A p \in Procs : \A d \in store :
         /\ ((Delete1Settles(p) \/ Delete2Settles(p))
                /\ Completed(d) /\ d.createdAt = loc[p].thirtyDaysAgo)
                => d \in store'
         /\ (Delete2Settles(p) /\ d.status = "pending"
                /\ d.createdAt = loc[p].oneDayAgo) => d \in store'
         /\ (Delete1Settles(p) /\ d.status = "pending") => d \in store'
         /\ (FindSettles(p) /\ d.createdAt = loc[p].sixtyDaysAgo)
                => d \notin loc'[p].toArchive /\ d \in store']_vars

\* a cleanup has ended and left a completed reservation exactly 30 days old
\* and a pending one exactly 24 hours old, and an archival has ended without
\* selecting a reservation that was exactly 60 days old
C4_Witness ==
    /\ CleanupRan("daily")
    /\ \E d \in store : Completed(d) /\ d.createdAt = loc["daily"].thirtyDaysAgo
    /\ \E d \in store : d.status = "pending" /\ d.createdAt = loc["daily"].oneDayAgo
    /\ ArchiveRan("weekly")
    /\ \E d \in store \cup loc["daily"].removed :
           d.createdAt = loc["weekly"].sixtyDaysAgo /\ d \notin loc["weekly"].toArchive

----------------------------------------------------------------------------
(* C5 *)

\* the archive copies of reservation d
CopiesOf(d) ==
    { a \in archive : /\ a.id = d.id
                      /\ a.status = d.status
                      /\ a.createdAt = d.createdAt
                      /\ a.archiveReason = "age"
                      /\ a.originalCollection = "reservations" }

\* C5, for the reservations an archival selected (createdAt strictly before
\* its 60-day cutoff): once the archival has ended without a store error, the
\* archive store holds exactly one copy of each, with archiveReason 'age' and
\* originalCollection added, and none of them is in the primary store.
C5_AsStated ==
    \A p \in Procs :
        ArchiveRan(p) =>
            \A d \in loc[p].toArchive :
                /\ d \notin store
                /\ Cardinality(CopiesOf(d)) = 1

----------------------------------------------------------------------------
(* C6 *)

AlertSubjects == { AlertSubject(t) : t \in {"EMERGENCY", "CRITICAL", "WARNING"} }
IsAlert(subject) == subject \in AlertSubjects

\* monitorHealth has ended and getStats had given it a snapshot
MonitorRan ==
    /\ pc["health"] = "idle"
    /\ outcome["health"].op = "monitorHealth"
    /\ loc["health"].stats # NoStats

\* C6: a monitorHealth that got a snapshot has sent exactly one alert, that of
\* the highest tier storageInMB exceeds (none at 350 or less), and has run
\* cleanupOldReservations then archiveReservations in the EMERGENCY tier and
\* neither of them in any other tier.
C6_AsStated ==
    MonitorRan =>
        LET l == loc["health"]
            tier == IF l.stats.storageInMB > EMERGENCY_THRESHOLD * 100 THEN "EMERGENCY"
                    ELSE IF l.stats.storageInMB > CRITICAL_THRESHOLD * 100 THEN "CRITICAL"
                    ELSE IF l.stats.storageInMB > WARNING_THRESHOLD * 100 THEN "WARNING"
                    ELSE "none"
        IN  /\ SelectSeq(l.notified, IsAlert) =
                   IF tier = "none" THEN << >> ELSE <<AlertSubject(tier)>>
            /\ l.calls = IF tier = "EMERGENCY"
                         THEN <<"cleanupOldReservations", "archiveReservations">>
                         ELSE << >>

----------------------------------------------------------------------------
(* C7 *)

\* C7: a monitorHealth that got a snapshot, with no store or delivery failure,
\* returns the snapshot and the three flags warning = storageInMB > 350,
\* critical = storageInMB > 400, emergency = storageInMB > 450, having sent at
\* most one alert.
C7_AsStated ==
    MonitorRan =>
        LET o == outcome["health"]
        IN  /\ o.kind = "returned"
            /\ o.stats = GetStats(dbStats)
            /\ o.alerts.warning = (o.stats.storageInMB > WARNING_THRESHOLD * 100)
            /\ o.alerts.critical = (o.stats.storageInMB > CRITICAL_THRESHOLD * 100)
            /\ o.alerts.emergency = (o.stats.storageInMB > EMERGENCY_THRESHOLD * 100)
            /\ Len(SelectSeq(loc["health"].notified, IsAlert)) <= 1

----------------------------------------------------------------------------
(* C8 *)

\* C8: a cleanupOldReservations in which a delete query failed returns 0, has
\* emitted one 'Cleanup Failed' notification, and does not raise.
C8_AsStated ==
    \A p \in Procs :
        (/\ pc[p] = "idle"
         /\ outcome[p].op = "cleanupOldReservations"
         /\ loc[p].error = StoreError) =>
            /\ outcome[p].kind = "returned"
            /\ outcome[p].count = 0
            /\ loc[p].notified = <<"Cleanup Failed">>

----------------------------------------------------------------------------
(* C9 *)

\* C9: an archiveReservations that has ended returned the number it selected
\* when that is positive and no error occurred, returned 0 with no
\* notification when it selected none, and returned 0 with one 'Archiving
\* Failed' notification when a step failed.
C9_AsStated ==
    \A p \in Procs :
        (pc[p] = "idle" /\ outcome[p].op = "archiveReservations") =>
            LET l == loc[p]
                o == outcome[p]
            IN  /\ (l.error = "none" /\ l.toArchive # {}) =>
                       o.kind = "returned" /\ o.count = Cardinality(l.toArchive)
                /\ (l.error = "none" /\ l.toArchive = {}) =>
                       o.kind = "returned" /\ o.count = 0 /\ l.notified = << >>
                /\ l.error # "none" =>
                       /\ o.kind = "returned"
                       /\ o.count = 0
                       /\ l.notified = <<"Archiving Failed">>

----------------------------------------------------------------------------
(* C10 *)

\* C10: while notify waits, both sends have been started; notify resolves
\* only when both sends have settled; and notify's promise is never rejected,
\* whichever of the sends fail.
C10_NotifyNeverRaises ==
    /\ npc = "awaiting" => email # "unstarted" /\ hook # "unstarted"
    /\ npc = "resolved" => Fulfilled(email) /\ Fulfilled(hook)
    /\ npc # "rejected"

\* notify has resolved after the mail send and the webhook send both failed
C10_Witness ==
    /\ npc = "resolved"
    /\ email = "caught"
    /\ hook = "caught"

----------------------------------------------------------------------------
(* C11 *)

WeekLen == 7 * 24 * 60 * Interval

\* the wall-clock minutes beginning after the timers were created whose
\* hour is h and whose minute is 0 (every day, or Sundays only)
MinutesAt(h, sundayOnly) ==
    { t \in (scheduledAt + 1) .. (scheduledAt + MaxAdvance) :
        /\ t % (24 * 60 * Interval) = h * 60 * Interval
        /\ sundayOnly => t % WeekLen = h * 60 * Interval }

\* the calls timer k made within the minute beginning at t
Hits(k, t) ==
    Cardinality({ i \in DOMAIN invoked[k] :
                    invoked[k][i] >= t /\ invoked[k][i] < t + Interval })

\* C11: for each wall-clock minute hour == cleanup hour, minute == 0 the
\* daily timer has invoked cleanupOldReservations at most once, and exactly
\* once when the minute is over, whatever the timing of the ticks.
C11_AsStated ==
    \A t \in MinutesAt(cleanupHour, FALSE) :
        /\ Hits("daily", t) <= 1
        /\ wall >= t + Interval => Hits("daily", t) = 1

\* with one set of timers no minute sees two calls
C11_NeverTwice ==
    \A t \in MinutesAt(cleanupHour, FALSE) : Hits("daily", t) <= 1

----------------------------------------------------------------------------
(* C12 *)

\* the weekly timer's callback runs in this step
WeeklyTick == due'["weekly"] # due["weekly"]

\* archiveReservations is called for the weekly timer in this step
WeeklyInvokes ==
    \/ invoked'["weekly"] # invoked["weekly"]
    \/ pc["weekly"] = "idle" /\ pc'["weekly"] # "idle"

\* t is within Sunday, hour archiveHour, minute 0
SundayArchiveMinute(t) ==
    /\ t % WeekLen >= archiveHour * 60 * Interval
    /\ t % WeekLen < archiveHour * 60 * Interval + Interval

\* C12: archiveReservations is invoked for the weekly timer only by a tick of
\* that timer whose wall-clock time is Sunday, the archive hour, minute 0; a
\* tick at any other time invokes nothing and changes nothing of the store,
\* the archive or the callbacks.
C12_WeeklyOnlyOnSunday ==
    [][/\ WeeklyInvokes => WeeklyTick /\ SundayArchiveMinute(wall)
       /\ (WeeklyTick /\ ~SundayArchiveMinute(wall)) =>
              UNCHANGED <<invoked, store, archive, pc, loc, outcome>>]_vars

\* the weekly timer has ticked before the archive hour without a call and
\* then, on Sunday at the archive hour, minute 0, has called archiveReservations
C12_Witness ==
    /\ Len(invoked["weekly"]) = 1
    /\ SundayArchiveMinute(invoked["weekly"][1])
    /\ invoked["weekly"][1] > scheduledAt + Interval
    /\ pc["weekly"] = "a_find"

----------------------------------------------------------------------------
(* C13 *)

\* C13: no monitorHealth, cleanupOldReservations or archiveReservations the
\* scheduler invoked ends by raising to the timer callback, whatever store
\* failure occurs.
C13_AsStated ==
    \A p \in Procs : pc[p] = "idle" => outcome[p].kind \in {"none", "returned"}

----------------------------------------------------------------------------
(* C14 *)

\* C14: with monitoring enabled each of the three maintenance timers exists
\* at most once and at most one initial health check was started, and exactly
\* one of each once the connection is cached, however the requests interleave.
C14_AsStated ==
    (entry \in Monitored /\ monitoring) =>
        /\ \A k \in TimerKinds : timers[k] <= 1
        /\ checks <= 1
        /\ cachedConnection => checks = 1 /\ \A k \in TimerKinds : timers[k] = 1

----------------------------------------------------------------------------
(* C15 *)

\* C15: connectToDatabase has at most one connect call that did not fail (a
\* call returns the cached handle once there is one, and calls that overlap
\* before the cache is set do not each connect); the cache is empty while
\* every attempt so far has failed.
C15_AsStated ==
    /\ connects.made - connects.failed <= 1
    /\ connects.made = connects.failed => ~cachedConnection

----------------------------------------------------------------------------
(* C16 *)

\* the PUT request r was answered after its findByIdAndUpdate settled
PutAnswered(r) ==
    /\ req[r].route = "PUT"
    /\ req[r].pc = "done"
    /\ req[r].error \notin {ConnectError, CatchTypeError, StoreError}

\* C16: a PUT /api/reservations/:id whose identifier matched no reservation
\* is answered 404, in every entry point; one whose identifier matched is
\* answered 200 with the reservation as updated by the given fields.
C16_AsStated ==
    \A r \in Reqs :
        PutAnswered(r) =>
            IF req[r].found = {}
            THEN req[r].code = 404
            ELSE /\ req[r].code = 200
                 /\ req[r].json = { [d EXCEPT !.status = req[r].body] : d \in req[r].found }

----------------------------------------------------------------------------
(* C17 *)

\* the handler of the DELETE old request r takes its cutoff in this step
OldIssued(r) ==
    /\ req[r].pc # "query"
    /\ req'[r].pc = "query"
    /\ req'[r].route = "DELETE_OLD"

\* the deleteMany of the DELETE old request r settles in this step
OldSettles(r) ==
    /\ req[r].route = "DELETE_OLD"
    /\ req[r].pc = "query"
    /\ req'[r].pc = "done"

\* C17: DELETE /api/reservations/old takes the cutoff now - 30 days; when its
\* deleteMany settles, the store loses exactly the reservations with status
\* confirmed or cancelled and createdAt earlier than that cutoff (none when
\* the query failed), every other reservation stays as it was, and the
\* archive store is unchanged.
C17_ManualCleanup ==
    [][\A r \in Reqs :
          /\ OldIssued(r) => req'[r].cutoff = now - CleanupDays * HoursPerDay
          /\ OldSettles(r) =>
                /\ archive' = archive
                /\ store' \subseteq store
                /\ \A d \in store :
                      d \notin store' <=>
                          /\ req'[r].code = 200
                          /\ d.status \in {"confirmed", "cancelled"}
                          /\ d.createdAt < req[r].cutoff]_vars

\* a DELETE old request was answered 200 after removing a confirmed or
\* cancelled reservation older than 30 days, and the store still holds a
\* pending reservation older than 30 days
C17_Witness ==
    \E r \in Reqs :
        /\ req[r].route = "DELETE_OLD"
        /\ req[r].pc = "done"
        /\ req[r].code = 200
        /\ req[r].found # {}
        /\ \E d \in store : d.status = "pending" /\ d.createdAt < req[r].cutoff

----------------------------------------------------------------------------
(* C18 *)

\* an update was lost to archival: the archive holds a copy of a reservation
\* that a PUT request updated and that is gone from the primary store, and
\* the copy has not the content the update gave it
LostUpdate ==
    \E r \in Reqs : \E d \in req[r].json :
        /\ req[r].route = "PUT"
        /\ req[r].code = 200
        /\ \A e \in store : e.id # d.id
        /\ \E a \in archive : a.id = d.id /\ a.status # d.status

\* no update is ever lost that way
NoLostUpdate == ~LostUpdate

\* C18: an archiveReservations whose find selected reservations goes on to
\* its copy step with them, so that up to its delete step an update request
\* can modify a selected reservation, which is then deleted with only its
\* earlier content archived.
C18_AsStated ==
    [][\A p \in Procs :
          (FindSucceeds(p) /\ loc'[p].toArchive # {}) => pc'[p] = "a_insert"]_vars

----------------------------------------------------------------------------
(* C19 *)

\* every reservation an archiveReservations removed from the primary store
\* has a copy with the same _id in the archive store
NeverLoses ==
    \A p \in Procs :
        loc[p].calls # << >> /\ loc[p].calls[Len(loc[p].calls)] = "archiveReservations" =>
            \A d \in loc[p].removed : \E a \in archive : a.id = d.id

----------------------------------------------------------------------------
(* C20 *)

\* C20: a cleanupOldReservations that has ended returned a value, and the
\* value is the number of reservations this invocation removed from the
\* primary store, also when its second delete query failed after the first
\* had succeeded.
C20_AsStated ==
    \A p \in Procs :
        (pc[p] = "idle" /\ outcome[p].op = "cleanupOldReservations") =>
            /\ outcome[p].kind = "returned"
            /\ outcome[p].count = Cardinality(loc[p].removed)
====
